---- MODULE Spec2Model ----
(***************************************************************************)
(* raise: focus / cycle / move a window of a class, or launch the program. *)
(* One run of main() (src/main.rs) as a state machine.  Every interaction  *)
(* with hyprctl (two queries, four commands) is one step; what hyprctl     *)
(* answers is the environment `env`, and whether a command can be spawned  *)
(* is chosen when it is spawned.                                           *)
(***************************************************************************)
EXTENDS Integers, Sequences, FiniteSets, TLC

\* Bounds of the model.
NumAddrs == 3
MaxClients == 3

Addrs == 1..NumAddrs
Classes == {"term", "web"}

\* struct Client { class, address }
Client == [class : Classes, address : Addrs]

\* struct Args; the launch string is the same in every run of the model.
LaunchString == "app"
Args == [class : Classes, launch : {LaunchString},
         move_to_current : BOOLEAN, move_to_nearest_empty : BOOLEAN]

RECURSIVE SeqsUpTo(_, _)
SeqsUpTo(S, n) ==
    IF n = 0 THEN {<<>>}
    ELSE LET shorter == SeqsUpTo(S, n - 1)
         IN  shorter \cup {Append(s, x) : s \in {t \in shorter : Len(t) = n - 1}, x \in S}

\* The compositor gives every window its own address.
UniqueAddresses(cs) ==
    \A i, j \in 1..Len(cs) : cs[i].address = cs[j].address => i = j

\* What `hyprctl clients -j` does: it cannot be run, it exits unsuccessfully,
\* or it exits successfully with bytes that are not UTF-8, with text that is
\* not a JSON list of clients, or with a list of clients.
ClientsOutcomes ==
    {[kind |-> k, clients |-> <<>>] : k \in {"spawn_err", "exit_fail", "bad_utf8", "bad_json"}}
    \cup {[kind |-> "ok", clients |-> cs] :
             cs \in {l \in SeqsUpTo(Client, MaxClients) : UniqueAddresses(l)}}

\* What `hyprctl activewindow -j` does: it cannot be run, or its output is
\* not UTF-8, is not a JSON client (no window is focused), or is a client.
ActiveOutcomes ==
    {[kind |-> k, client |-> <<>>] : k \in {"spawn_err", "bad_utf8", "bad_json"}}
    \cup {[kind |-> "ok", client |-> <<c>>] : c \in Client}

VARIABLES
    args,        \* the parsed command line
    env,         \* [clients, active]: what the two queries answer in this run
    pc,          \* position of main()
    candidates,  \* the clients of class args.class, in the order listed
    current,     \* Result of get_current_matching_window: <<client>> or <<>> (Err)
    pending,     \* the commands the taken branch still has to spawn, in order
    queries,     \* the queries run so far
    log,         \* the commands spawned so far, with the outcome of the spawn
    status,      \* "running", "success" (exit 0) or "failure" (exit non-zero)
    history      \* the finished runs of a repeated invocation

vars == <<args, env, pc, candidates, current, pending, queries, log, status, history>>

(***************************************************************************)
(* The commands.  `checked` says whether main propagates the spawn's error *)
(* with `?`.                                                               *)
(***************************************************************************)
launch_command(checked) ==
    [cmd |-> "exec", target |-> <<>>, checked |-> checked]

focus_window(address, checked) ==
    [cmd |-> "focuswindow", target |-> <<address>>, checked |-> checked]

move_to_current(address, checked) ==
    [cmd |-> "movetoworkspace", target |-> <<address>>, checked |-> checked]

goto_nearest_empty_workspace(checked) ==
    [cmd |-> "workspace_empty", target |-> <<>>, checked |-> checked]

\* Variant: the filter compares the class with the launch string.
CandidatesByLaunch(clients, class) ==
    SelectSeq(clients, LAMBDA client : client.class = LaunchString)

\* clients.iter().filter(|client| client.class == args.class).collect()
Candidates(clients, class) ==
    SelectSeq(clients, LAMBDA client : client.class = class)

\* Variant: the focused window is returned whatever its class.
get_current_window_any_class(class, out) ==
    IF out.kind = "ok" THEN out.client ELSE <<>>

\* get_current_matching_window: Ok(client) only when the query ran, its
\* output parsed and the client's class is `class`.
get_current_matching_window(class, out) ==
    IF out.kind = "ok" /\ out.client[1].class = class THEN out.client ELSE <<>>

\* candidates.iter().position(|client| client.address == address):
\* <<index>> (0-based, the first match) or <<>>.
Position(cands, address) ==
    LET hits == {i \in 1..Len(cands) : cands[i].address = address}
    IN  IF hits = {} THEN <<>>
        ELSE <<(CHOOSE i \in hits : \A j \in hits : i <= j) - 1>>

\* Variant: candidates.get(index + 1), which does not wrap around.
CycleSkipNoWrap(cands, index) ==
    IF index + 1 < Len(cands) THEN <<cands[index + 2]>> ELSE <<>>

\* Variant: candidates.iter().cycle().skip(index).next(), the focused window.
CycleSkipSame(cands, index) ==
    IF Len(cands) = 0 THEN <<>>
    ELSE <<cands[(index % Len(cands)) + 1]>>

\* candidates.iter().cycle().skip(index + 1).next()
CycleSkipNext(cands, index) ==
    IF Len(cands) = 0 THEN <<>>
    ELSE <<cands[((index + 1) % Len(cands)) + 1]>>

\* Variant: the branch for --move-to-current moves the first candidate.
CycleCommandsMoveFirst(a, cands, address) ==
    LET index == Position(cands, address)
        next_client == IF index = <<>> THEN <<>> ELSE CycleSkipNext(cands, index[1])
    IN  IF next_client = <<>> THEN <<>>
        ELSE IF a.move_to_nearest_empty
             THEN <<goto_nearest_empty_workspace(FALSE),
                    move_to_current(next_client[1].address, TRUE)>>
        ELSE IF a.move_to_current
             THEN <<move_to_current(cands[1].address, TRUE)>>
        ELSE <<focus_window(next_client[1].address, TRUE)>>

\* Variant: a focused window that is not among the candidates is handled as
\* if nothing were focused.
CycleCommandsFallThrough(a, cands, address) ==
    LET index == Position(cands, address)
        next_client == IF index = <<>> THEN <<>> ELSE CycleSkipNext(cands, index[1])
        target == IF next_client = <<>> THEN cands ELSE next_client
    IN  IF target = <<>> THEN <<launch_command(TRUE)>>
        ELSE IF a.move_to_nearest_empty
             THEN <<goto_nearest_empty_workspace(FALSE),
                    move_to_current(target[1].address, TRUE)>>
        ELSE IF a.move_to_current
             THEN <<move_to_current(target[1].address, TRUE)>>
        ELSE <<focus_window(target[1].address, TRUE)>>

\* The commands of the branch "a window of this class is focused".
CycleCommands(a, cands, address) ==
    LET index == Position(cands, address)
        next_client == IF index = <<>> THEN <<>> ELSE CycleSkipNext(cands, index[1])
    IN  IF next_client = <<>> THEN <<>>
        ELSE IF a.move_to_nearest_empty
             THEN <<goto_nearest_empty_workspace(FALSE),
                    move_to_current(next_client[1].address, TRUE)>>
        ELSE IF a.move_to_current
             THEN <<move_to_current(next_client[1].address, TRUE)>>
        ELSE <<focus_window(next_client[1].address, TRUE)>>

\* Variant: with no candidate, --move-to-nearest-empty launches and then
\* switches the workspace.
FirstCommandsLaunchFirst(a, cands) ==
    IF Len(cands) > 0
    THEN IF a.move_to_nearest_empty
         THEN <<goto_nearest_empty_workspace(FALSE),
                move_to_current(cands[1].address, FALSE)>>
         ELSE IF a.move_to_current
              THEN <<move_to_current(cands[1].address, FALSE)>>
         ELSE <<focus_window(cands[1].address, FALSE)>>
    ELSE IF a.move_to_nearest_empty
         THEN <<launch_command(FALSE), goto_nearest_empty_workspace(FALSE)>>
         ELSE <<launch_command(FALSE)>>

\* The commands of the branch "no window of this class is focused": the
\* value of the match is dropped, so no spawn error is propagated.
FirstCommands(a, cands) ==
    IF Len(cands) > 0
    THEN IF a.move_to_nearest_empty
         THEN <<goto_nearest_empty_workspace(FALSE),
                move_to_current(cands[1].address, FALSE)>>
         ELSE IF a.move_to_current
              THEN <<move_to_current(cands[1].address, FALSE)>>
         ELSE <<focus_window(cands[1].address, FALSE)>>
    ELSE IF a.move_to_nearest_empty
         THEN <<goto_nearest_empty_workspace(FALSE), launch_command(FALSE)>>
         ELSE <<launch_command(FALSE)>>

\* The commands when `hyprctl clients -j` failed.
FallbackCommands(a) == <<launch_command(TRUE)>>

\* Variant: the exit status of `hyprctl clients -j` is not looked at, and the
\* output of the failed query does not parse.
AfterClientsNoStatus(out) ==
    CASE out.kind \in {"spawn_err"}                          -> "fallback"
      [] out.kind \in {"exit_fail", "bad_utf8", "bad_json"} -> "exit"
      [] OTHER                                               -> "active"

\* Where main goes after `hyprctl clients -j`.
AfterClients(out) ==
    CASE out.kind \in {"spawn_err", "exit_fail"} -> "fallback"
      [] out.kind \in {"bad_utf8", "bad_json"}   -> "exit"
      [] OTHER                                   -> "active"

TypeOK ==
    /\ args \in Args
    /\ env \in [clients : ClientsOutcomes, active : ActiveOutcomes]
    /\ pc \in {"start", "clients", "active", "decide", "fallback", "spawn", "exit"}
    /\ status \in {"running", "success", "failure"}

RunInit ==
    /\ pc = "start"
    /\ candidates = <<>>
    /\ current = <<>>
    /\ pending = <<>>
    /\ queries = <<>>
    /\ log = <<>>
    /\ status = "running"

Init ==
    /\ args \in Args
    /\ env \in [clients : ClientsOutcomes, active : ActiveOutcomes]
    /\ history = <<>>
    /\ RunInit

\* Variant: the two placement switches are not checked.
ParseArgsNoCheck ==
    /\ pc = "start"
    /\ pc' = "clients"
    /\ UNCHANGED <<args, env, candidates, current, pending, queries, log, status, history>>

\* argh::from_env() and the check of the two placement switches.
ParseArgs ==
    /\ pc = "start"
    /\ IF args.move_to_current /\ args.move_to_nearest_empty
       THEN pc' = "exit" /\ status' = "failure"
       ELSE pc' = "clients" /\ status' = status
    /\ UNCHANGED <<args, env, candidates, current, pending, queries, log, history>>

\* Command::new("hyprctl").arg("clients").arg("-j").output(), the decoding
\* of its output and the filter.
QueryClients ==
    /\ pc = "clients"
    /\ queries' = Append(queries, "clients")
    /\ pc' = AfterClients(env.clients)
    /\ status' = IF AfterClients(env.clients) = "exit" THEN "failure" ELSE status
    /\ candidates' = IF AfterClients(env.clients) = "active"
                     THEN Candidates(env.clients.clients, args.class)
                     ELSE candidates
    /\ UNCHANGED <<args, env, current, pending, log, history>>

\* The call of get_current_matching_window(&args.class).
QueryActive ==
    /\ pc = "active"
    /\ queries' = Append(queries, "activewindow")
    /\ current' = get_current_matching_window(args.class, env.active)
    /\ pc' = "decide"
    /\ UNCHANGED <<args, env, candidates, pending, log, status, history>>

\* if let Ok(Client { address, .. }) = ... { focus next window }
CycleNext ==
    /\ pc = "decide"
    /\ current # <<>>
    /\ pending' = CycleCommands(args, candidates, current[1].address)
    /\ pc' = "spawn"
    /\ UNCHANGED <<args, env, candidates, current, queries, log, status, history>>

\* else { focus first window, otherwise launch command }
FocusFirst ==
    /\ pc = "decide"
    /\ current = <<>>
    /\ pending' = FirstCommands(args, candidates)
    /\ pc' = "spawn"
    /\ UNCHANGED <<args, env, candidates, current, queries, log, status, history>>

\* _ => { launch_command(&args)?; }
Fallback ==
    /\ pc = "fallback"
    /\ pending' = FallbackCommands(args)
    /\ pc' = "spawn"
    /\ UNCHANGED <<args, env, candidates, current, queries, log, status, history>>

\* Where main goes after a spawn: on with the branch, or out with the error.
AfterSpawn(command, ok) ==
    IF ~ok /\ command.checked THEN "exit" ELSE "spawn"

\* The next Command::new("hyprctl")...spawn() of the branch taken.
Spawn ==
    /\ pc = "spawn"
    /\ pending # <<>>
    /\ \E ok \in BOOLEAN :
          /\ log' = Append(log, [cmd |-> Head(pending).cmd,
                                 target |-> Head(pending).target, ok |-> ok])
          /\ pc' = AfterSpawn(Head(pending), ok)
          /\ status' = IF AfterSpawn(Head(pending), ok) = "exit" THEN "failure" ELSE status
    /\ pending' = Tail(pending)
    /\ UNCHANGED <<args, env, candidates, current, queries, history>>

\* Ok(()) at the end of main.
Finish ==
    /\ pc = "spawn"
    /\ pending = <<>>
    /\ pc' = "exit"
    /\ status' = "success"
    /\ UNCHANGED <<args, env, candidates, current, pending, queries, log, history>>

Next ==
    \/ ParseArgs
    \/ QueryClients
    \/ QueryActive
    \/ CycleNext
    \/ FocusFirst
    \/ Fallback
    \/ Spawn
    \/ Finish

Spec == Init /\ [][Next]_vars

(***************************************************************************)
(* What a run did, read from its log.                                      *)
(***************************************************************************)
Conflict(a) == a.move_to_current /\ a.move_to_nearest_empty

Mode(a) ==
    IF a.move_to_nearest_empty THEN "ToNearestEmptyWorkspace"
    ELSE IF a.move_to_current THEN "ToCurrentWorkspace"
    ELSE "Normal"

\* The command that acts on a window under a placement mode.
WindowCmdOf(a) == IF Mode(a) = "Normal" THEN "focuswindow" ELSE "movetoworkspace"

WindowCmds(l) == SelectSeq(l, LAMBDA c : c.cmd \in {"focuswindow", "movetoworkspace"})
Launches(l)   == SelectSeq(l, LAMBDA c : c.cmd = "exec")
Switches(l)   == SelectSeq(l, LAMBDA c : c.cmd = "workspace_empty")

\* The window list filtered to a class, original order kept.
RECURSIVE OfClass(_, _)
OfClass(clients, class) ==
    IF clients = <<>> THEN <<>>
    ELSE IF Head(clients).class = class
         THEN <<Head(clients)>> \o OfClass(Tail(clients), class)
         ELSE OfClass(Tail(clients), class)

ListOk == env.clients.kind = "ok"
Listed == OfClass(env.clients.clients, args.class)

\* The focused-window query answers a window of the target class.
FocusMatches == env.active.kind = "ok" /\ env.active.client[1].class = args.class
FocusAddress == env.active.client[1].address
Done == pc = "exit"

\* The log holds one window command, of the mode's kind, for `address`.
OneWindowCmd(l, a, address) ==
    /\ Len(WindowCmds(l)) = 1
    /\ WindowCmds(l)[1].cmd = WindowCmdOf(a)
    /\ WindowCmds(l)[1].target = <<address>>

\* C1: a finished run whose focused window is candidate i (1-based here) of a
\* candidate list with unique addresses has issued exactly one window command,
\* of the mode's kind, for the next candidate in cyclic order, and no launch.
C1_CycleNext ==
    (Done /\ ~Conflict(args) /\ ListOk /\ FocusMatches /\ UniqueAddresses(Listed)) =>
        \A i \in 1..Len(Listed) :
            Listed[i].address = FocusAddress =>
                /\ OneWindowCmd(log, args, Listed[(i % Len(Listed)) + 1].address)
                /\ Launches(log) = <<>>
                /\ (Len(Listed) = 1 => WindowCmds(log)[1].target = <<FocusAddress>>)

\* The last of three candidates is focused and the first one gets the focus.
C1_Witness ==
    /\ Done /\ ListOk /\ FocusMatches /\ UniqueAddresses(Listed)
    /\ Mode(args) = "Normal" /\ ~Conflict(args)
    /\ Len(Listed) = 3
    /\ Listed[3].address = FocusAddress
    /\ log = <<[cmd |-> "focuswindow", target |-> <<Listed[1].address>>, ok |-> TRUE]>>

\* C2: a finished run whose focused-window query failed, or answered a window
\* of another class, has issued one window command for the first candidate
\* (and no launch) when there is a candidate, and one launch (and no window
\* command) when there is none.
C2_NoMatchingFocus ==
    (Done /\ ~Conflict(args) /\ ListOk /\ ~FocusMatches) =>
        IF Listed # <<>>
        THEN OneWindowCmd(log, args, Listed[1].address) /\ Launches(log) = <<>>
        ELSE Len(Launches(log)) = 1 /\ WindowCmds(log) = <<>>

\* A window of another class is focused, two candidates exist, the first is moved.
C2_Witness ==
    /\ Done /\ ListOk /\ ~Conflict(args)
    /\ env.active.kind = "ok" /\ env.active.client[1].class # args.class
    /\ Len(Listed) = 2 /\ Listed[1].address # Listed[2].address
    /\ Len(env.clients.clients) = 3 /\ env.clients.clients[1].class # args.class
    /\ Mode(args) = "ToCurrentWorkspace"
    /\ log = <<[cmd |-> "movetoworkspace", target |-> <<Listed[1].address>>, ok |-> TRUE]>>

\* C3 as claimed: every finished run whose window-list query failed in any
\* way, malformed output included, has issued the launch command.
C3_AnyListFailureLaunches ==
    (Done /\ ~Conflict(args) /\ ~ListOk) => Len(Launches(log)) = 1

\* C3 as the code has it: when the query cannot be run or exits unsuccessfully
\* the run issues the launch command, nothing else, and succeeds exactly when
\* the launch could be issued; when the query exits successfully with output
\* that is not UTF-8 or does not parse, the run issues nothing and fails.
C3_ListFailure ==
    (Done /\ ~Conflict(args)) =>
        /\ env.clients.kind \in {"spawn_err", "exit_fail"} =>
              /\ Len(log) = 1 /\ log[1].cmd = "exec"
              /\ queries = <<"clients">>
              /\ (status = "success") = log[1].ok
        /\ env.clients.kind \in {"bad_utf8", "bad_json"} =>
              /\ log = <<>>
              /\ queries = <<"clients">>
              /\ status = "failure"

C3_Witness ==
    /\ Done /\ ~Conflict(args)
    /\ env.clients.kind = "exit_fail"
    /\ log = <<[cmd |-> "exec", target |-> <<>>, ok |-> TRUE]>>
    /\ status = "success"

\* C4 as claimed: a run in which the spawn of a command failed never ends
\* with success.
C4_DispatchFailureFatal ==
    (Done /\ \E k \in 1..Len(log) : ~log[k].ok) => status = "failure"

\* C4, the second half: nothing is spawned after a failed spawn whose error
\* is propagated, and no command is spawned twice.
C4_NoRetry ==
    \A j, k \in 1..Len(log) : (j < k) => log[j].cmd # log[k].cmd

\* C6: with both placement switches set the run makes no query and issues
\* no command, and it ends with a failure.
C6_ExclusiveFlags ==
    Conflict(args) =>
        /\ queries = <<>>
        /\ log = <<>>
        /\ pc \in {"start", "exit"}
        /\ (Done => status = "failure")

C6_Witness == Conflict(args) /\ Done /\ status = "failure" /\ ListOk /\ Listed # <<>>

\* C9: under ToNearestEmptyWorkspace a move, and a launch that follows a
\* successful window list, is the second of exactly two commands, the first
\* being the one switch to an empty workspace; under the other two modes no
\* switch is issued, and ToCurrentWorkspace launches with the launch alone.
C9_SwitchThenAct ==
    ~Conflict(args) =>
        /\ Mode(args) = "ToNearestEmptyWorkspace" =>
              /\ Len(Switches(log)) <= 1
              /\ (WindowCmds(log) # <<>> \/ (ListOk /\ Launches(log) # <<>>)) =>
                    /\ Len(log) = 2
                    /\ log[1].cmd = "workspace_empty"
                    /\ log[2].cmd \in {"movetoworkspace", "exec"}
              /\ (Done /\ status = "success" /\ ListOk /\ log # <<>>) => Len(log) = 2
        /\ Mode(args) # "ToNearestEmptyWorkspace" => Switches(log) = <<>>
        /\ (Mode(args) = "ToCurrentWorkspace" /\ Launches(log) # <<>>) => Len(log) = 1

\* No candidate and no focus under ToNearestEmptyWorkspace: switch, then launch.
C9_Witness ==
    /\ Done /\ ListOk /\ Listed = <<>> /\ ~FocusMatches
    /\ Mode(args) = "ToNearestEmptyWorkspace" /\ ~Conflict(args)
    /\ log = <<[cmd |-> "workspace_empty", target |-> <<>>, ok |-> TRUE],
               [cmd |-> "exec", target |-> <<>>, ok |-> TRUE]>>

\* C10: when the window list was read, at most one of focus, move and launch
\* is issued, and a launch only when no listed window has the target class.
C10_NoDuplicateInstance ==
    ListOk =>
        /\ Len(WindowCmds(log)) + Len(Launches(log)) <= 1
        /\ Launches(log) # <<>> =>
              \A k \in 1..Len(env.clients.clients) :
                  env.clients.clients[k].class # args.class

\* Windows are listed, none of the target class, and the program is launched.
C10_Witness ==
    /\ Done /\ ListOk /\ ~Conflict(args)
    /\ Len(env.clients.clients) = 2
    /\ Len(Launches(log)) = 1
    /\ status = "success"

(***************************************************************************)
(* Repeated invocations.  The program keeps nothing between runs: a new    *)
(* run starts from RunInit, and `history` records the runs that finished.  *)
(***************************************************************************)
Entry == [args |-> args, active |-> env.active, log |-> log, status |-> status]

Restart ==
    /\ pc' = "start"
    /\ candidates' = <<>>
    /\ current' = <<>>
    /\ pending' = <<>>
    /\ queries' = <<>>
    /\ log' = <<>>
    /\ status' = "running"

\* The same answers of hyprctl, the three placement modes one after the other:
\* Normal, then ToCurrentWorkspace, then ToNearestEmptyWorkspace.
InitModes ==
    /\ args \in {a \in Args : ~a.move_to_current /\ ~a.move_to_nearest_empty}
    /\ env \in [clients : ClientsOutcomes, active : ActiveOutcomes]
    /\ history = <<>>
    /\ RunInit

RerunNextMode ==
    /\ pc = "exit"
    /\ Len(history) < 2
    /\ history' = Append(history, Entry)
    /\ args' = [args EXCEPT !.move_to_current = (Len(history) = 0),
                            !.move_to_nearest_empty = (Len(history) = 1)]
    /\ Restart
    /\ UNCHANGED env

NextModes ==
    \/ ParseArgs
    \/ QueryClients
    \/ QueryActive
    \/ CycleNext
    \/ FocusFirst
    \/ Fallback
    \/ Spawn
    \/ Finish
    \/ RerunNextMode

SpecModes == InitModes /\ [][NextModes]_vars

\* A fixed window list, a candidate of it focused; after each run that got
\* its window command issued, the window it chose is the focused one.
InitCycle ==
    /\ args \in {a \in Args : ~(a.move_to_current /\ a.move_to_nearest_empty)}
    /\ env \in {e \in [clients : ClientsOutcomes, active : ActiveOutcomes] :
                  /\ e.clients.kind = "ok"
                  /\ e.active.kind = "ok"
                  /\ e.active.client[1].class = args.class
                  /\ \E k \in 1..Len(e.clients.clients) :
                        e.clients.clients[k] = e.active.client[1]}
    /\ history = <<>>
    /\ RunInit

RerunTargetFocused ==
    /\ pc = "exit"
    /\ status = "success"
    /\ \E k \in 1..Len(log) : log[k].target # <<>>
    /\ Len(history) < Len(candidates)
    /\ history' = Append(history, Entry)
    /\ LET k == CHOOSE k \in 1..Len(log) : log[k].target # <<>>
       IN  env' = [env EXCEPT !.active =
                      [kind |-> "ok",
                       client |-> <<[class |-> args.class, address |-> log[k].target[1]]>>]]
    /\ Restart
    /\ UNCHANGED args

NextCycle ==
    \/ ParseArgs
    \/ QueryClients
    \/ QueryActive
    \/ CycleNext
    \/ Spawn
    \/ Finish
    \/ RerunTargetFocused

SpecCycle == InitCycle /\ [][NextCycle]_vars

\* The focused window has the target class and is not in the candidate list.
Stale ==
    /\ ListOk /\ FocusMatches
    /\ \A k \in 1..Len(Listed) : Listed[k].address # FocusAddress

\* C5: with a stale focus the run issues no command and ends with success,
\* under each of the three placement modes run one after the other on the
\* same answers, whether or not there are candidates.
C5_StaleFocusNoOp ==
    Stale =>
        /\ log = <<>>
        /\ status # "failure"
        /\ (Done => status = "success")
        /\ \A r \in 1..Len(history) :
              history[r].log = <<>> /\ history[r].status = "success"

\* Three runs done on a stale focus with a candidate listed.
C5_Witness ==
    /\ Stale /\ Done /\ status = "success"
    /\ Len(history) = 2
    /\ Listed # <<>>
    /\ queries = <<"clients", "activewindow">>

\* The addresses a log's window commands name, in order.
Targets(l) == [k \in 1..Len(WindowCmds(l)) |-> WindowCmds(l)[k].target[1]]

\* C7: n runs on a fixed list of n candidates with unique addresses, each
\* started with the window the run before chose as the focused one, choose
\* every candidate exactly once and end on the window focused at first.
C7_CycleCloses ==
    (UniqueAddresses(Listed) /\ Listed # <<>> /\ Len(history) = Len(Listed)) =>
        LET n == Len(Listed)
        IN  /\ \A k \in 1..n : Len(Targets(history[k].log)) = 1
            /\ Targets(history[n].log)[1] = history[1].active.client[1].address
            /\ {Targets(history[k].log)[1] : k \in 1..n}
                  = {Listed[k].address : k \in 1..n}
            /\ \A j, k \in 1..n :
                  Targets(history[j].log) = Targets(history[k].log) => j = k

\* Three candidates, the second focused at first: the runs choose 3, 1, 2.
C7_Witness ==
    /\ UniqueAddresses(Listed) /\ Len(Listed) = 3 /\ Len(history) = 3
    /\ history[1].active.client[1].address = Listed[2].address
    /\ Targets(history[1].log) = <<Listed[3].address>>
    /\ Targets(history[2].log) = <<Listed[1].address>>
    /\ Targets(history[3].log) = <<Listed[2].address>>

\* The finished runs on the same answers: those of the history and, once it
\* is done, the current one.
Logs == [r \in 1..Len(history) |-> history[r].log] \o <<log>>

\* C8: the three runs on the same answers, one per placement mode, address
\* the same window (or none), agree on launching and on doing nothing, and
\* use the window command of their mode.
C8_PlacementOrthogonal ==
    (Done /\ Len(history) = 2) =>
        /\ \A q, r \in 1..3 :
              /\ Targets(Logs[q]) = Targets(Logs[r])
              /\ Len(Launches(Logs[q])) = Len(Launches(Logs[r]))
              /\ (Logs[q] = <<>>) = (Logs[r] = <<>>)
        /\ \A k \in 1..Len(WindowCmds(Logs[1])) : WindowCmds(Logs[1])[k].cmd = "focuswindow"
        /\ \A r \in 2..3 : \A k \in 1..Len(WindowCmds(Logs[r])) :
              WindowCmds(Logs[r])[k].cmd = "movetoworkspace"
        /\ Switches(Logs[1]) = <<>> /\ Switches(Logs[2]) = <<>>

\* The first of two candidates is focused; each mode addresses the second.
C8_Witness ==
    /\ Done /\ Len(history) = 2
    /\ ListOk /\ FocusMatches /\ Len(Listed) = 2 /\ UniqueAddresses(Listed)
    /\ FocusAddress = Listed[1].address
    /\ \A r \in 1..3 : Targets(Logs[r]) = <<Listed[2].address>>
    /\ Len(Logs[3]) = 2

====
